---- MODULE Spec2Model ----
(***************************************************************************)
(* Turn selection and relay scheduling of the bot relay server.            *)
(*                                                                         *)
(* The store (Bot and Message rows), the Bull queue 'message-relay', the   *)
(* webhook handler and the queue processor are modelled from               *)
(*   src/unnamed/part_001                  (the relay queue service with   *)
(*                                          the chained relay),            *)
(*   src/src/controllers/webhookController.ts,                             *)
(*   src/src/services/telegramService.ts,                                  *)
(*   src/src/controllers/botController.ts,                                 *)
(*   src/src/services/messageQueue.ts      (the two-argument selector).    *)
(*                                                                         *)
(* Every await of the source is a point where another handler or the job   *)
(* may run, so each handler and the job advance in steps, one per await    *)
(* that reads or writes shared state.                                      *)
(***************************************************************************)
EXTENDS Integers, Sequences, FiniteSets, Bags, TLC

\* ------------------------------------------------------------------ bounds

\* Bots registered in the model (ids 1..MaxBots, in registration order).
MaxBots == 3
\* Message ids the platform hands out (human posts and bot sends together).
MaxMsgIds == 3
\* Webhook deliveries handled in one run.
MaxDeliveries == 2
\* Rows of the Message table in the selection specification.
MaxStored == 2
\* Milliseconds the limiter specification runs for.
MaxTime == 2000
\* Latest createdAt of a Bot row in the administration specification.
MaxCreatedAt == 3
\* Largest activeBots a registration may start from.
MaxCount == 2
\* registerBot calls between their checks and their writes at one time.
MaxPending == 2
\* Math.random() takes the values u / RandomSteps, u in 0..RandomSteps-1.
RandomSteps == 10

\* --------------------------------------------------------------- constants

\* Bull job option `attempts: 3`.
attempts == 3

\* `sendingBot?.id || ''`, a null bot, a null message id.
NoBot == 0

BotIds == 1..MaxBots

\* Telegram chat ids of the groups (Group.telegramId, Bot.groupId).
GroupTgIds == {1, 2}

\* Group.id (a UUID) of the Group row whose telegramId is tg: another keyspace.
GroupUuid(tg) == tg + 100

\* The group the relay specification runs in: the first chat id.
TheGroup == CHOOSE g \in GroupTgIds : \A h \in GroupTgIds : g <= h

VARIABLES
    bots,        \* Bot table: id -> [groupId, isActive, createdAt]
    messages,    \* Message table in timestamp order
    chat,        \* ids of the human messages posted in the group chat
    nextMsgId,   \* next message id of the platform
    handlers,    \* bag of the locals of the running handleWebhook calls
    deliveries,  \* number of webhook deliveries so far
    handled,     \* <<bot, message id>> pairs whose handling has returned
    queue,       \* bag of the waiting and delayed jobs of the Bull queue
    active,      \* the processMessage call in progress (concurrency 1)
    ingressLog,  \* history: [msg, bot] of every job a handler enqueued
    lastEnq,     \* the addToQueue the last step performed, if any
    lastOutcome, \* how the last step ended a delivery attempt, if it did
    sel,         \* selection specification: the last selectNextBot call
    now,         \* Date.now() in ms
    zsets,       \* Redis sorted sets: key -> set of scores
    expireAt,    \* key -> the time at which Redis drops the key
    waiter,      \* the job that sleeps in, or has passed, waitForRateLimit
    lastAdmit,   \* history: bot -> time of its last allowed check
    lastDeny,    \* history: bot -> time its last denial said to wait until
    lastPass,    \* history: bot -> time waitForRateLimit last returned for it
    redisFailed, \* history: a Redis command of the limiter has failed
    lastCheck,   \* the checkRateLimit call the last step made, if any
    lastReturn,  \* the return of waitForRateLimit in the last step, if any
    groups,      \* Group table: telegramId -> activeBots, for the rows there are
    webhooks,    \* tokens whose webhook is set at the platform
    pending,     \* bag of the registerBot calls past their checks
    lastReg,     \* the registerBot call the last step answered, if any
    delays,      \* the delay of the latest addToQueue of each kind
    lastUpdate   \* the update of the latest call of handleWebhook

relayVars == <<bots, messages, chat, nextMsgId, handlers, deliveries, handled,
               queue, active, ingressLog, lastEnq, lastOutcome, sel>>

limiterVars == <<now, zsets, expireAt, waiter, lastAdmit, lastDeny, lastPass,
                 redisFailed, lastCheck, lastReturn>>

adminVars == <<groups, webhooks, pending, lastReg>>

enqueueVars == <<delays>>

gateVars == <<lastUpdate>>

\* What the steps of the relay, and the steps of the limiter, leave alone.
besidesRelay == <<limiterVars, adminVars, enqueueVars, gateVars>>
besidesLimiter == <<relayVars, adminVars, enqueueVars, gateVars>>

vars == <<relayVars, limiterVars, adminVars, enqueueVars, gateVars>>

\* ------------------------------------------------------------ the store

\* prisma.message.create: append a row (timestamp = now).
messageCreateOverLast(msgs, botId, groupId, isAi, tmid) ==
    Append(SubSeq(msgs, 1, Len(msgs) - 1),
           [botId |-> botId, groupId |-> groupId,
            isAiGenerated |-> isAi, telegramMsgId |-> tmid])
messageCreate(msgs, botId, groupId, isAi, tmid) ==
    Append(msgs, [botId |-> botId, groupId |-> groupId,
                  isAiGenerated |-> isAi, telegramMsgId |-> tmid])

\* prisma.message.findFirst({where: {telegramMsgId, groupId}}) !== null
existingMessage(msgs, groupId, tmid) ==
    \E i \in DOMAIN msgs :
        msgs[i].groupId = groupId /\ msgs[i].telegramMsgId = tmid

\* orderBy: {createdAt: 'asc'} over the bot ids in S.
RECURSIVE orderByCreatedAt(_, _)
orderByCreatedAt(bs, S) ==
    IF S = {} THEN <<>>
    ELSE LET first == CHOOSE b \in S :
                          \A c \in S : bs[b].createdAt <= bs[c].createdAt
         IN  <<first>> \o orderByCreatedAt(bs, S \ {first})

\* where: {groupId, isActive: true, id: {not: excludeBotId}}
botsWhereAnyActivity(bs, groupId, excludeBotId) ==
    {b \in DOMAIN bs : bs[b].groupId = groupId /\ b # excludeBotId}
botsWhereIncludeExcluded(bs, groupId, excludeBotId) ==
    {b \in DOMAIN bs : bs[b].groupId = groupId /\ bs[b].isActive}
botsWhere(bs, groupId, excludeBotId) ==
    {b \in DOMAIN bs : /\ bs[b].groupId = groupId
                       /\ bs[b].isActive
                       /\ b # excludeBotId}

\* prisma.bot.findMany of selectNextBot.
botFindMany(bs, groupId, excludeBotId) ==
    orderByCreatedAt(bs, botsWhere(bs, groupId, excludeBotId))

\* prisma.message.findFirst({where: {groupId, isAiGenerated: true},
\* orderBy: {timestamp: 'desc'}}): the author of that row, NoBot when null.
lastMessageBotId(msgs, groupId) ==
    LET ai == {i \in DOMAIN msgs :
                  msgs[i].groupId = groupId /\ msgs[i].isAiGenerated}
    IN  IF ai = {} THEN NoBot
        ELSE msgs[CHOOSE i \in ai : \A j \in ai : j <= i].botId

\* bots.findIndex((b) => b.id === id): 0-based, -1 when absent.
findIndex(seq, id) ==
    IF \E i \in DOMAIN seq : seq[i] = id
    THEN (CHOOSE i \in DOMAIN seq :
              seq[i] = id /\ \A j \in DOMAIN seq : seq[j] = id => i <= j) - 1
    ELSE -1

\* nextBotIndex = (lastBotIndex + 1) % bots.length
nextBotIndexNoWrap(lastBotIndex, n) == lastBotIndex + 1
nextBotIndex(lastBotIndex, n) == (lastBotIndex + 1) % n

\* bots[nextBotIndex].id; reading .id of undefined throws, and the catch of
\* selectNextBot turns that into null.
botAt(seq, idx) == IF idx + 1 \in DOMAIN seq THEN seq[idx + 1] ELSE NoBot

\* The rotation of selectNextBot over the rows the two queries returned.
rotateStall(found, lastBotId) ==
    IF Len(found) = 0 THEN NoBot
    ELSE LET lastBotIndex == findIndex(found, lastBotId)
         IN  IF lastBotId = NoBot THEN botAt(found, 0)
             ELSE IF lastBotIndex = -1 THEN NoBot
             ELSE botAt(found, nextBotIndex(lastBotIndex, Len(found)))
rotate(found, lastBotId) ==
    IF Len(found) = 0 THEN NoBot
    ELSE LET lastBotIndex == findIndex(found, lastBotId)
             idx == IF lastBotId # NoBot /\ lastBotIndex # -1
                    THEN nextBotIndex(lastBotIndex, Len(found))
                    ELSE 0
         IN  botAt(found, idx)

\* selectNextBot(groupUuid, groupTelegramId, excludeBotId) of the relay
\* service: bots are looked up by the Telegram id, messages by the UUID.
\* dbOk = FALSE: a query throws, which the catch turns into null.
selectNextBotNoExclude(bs, msgs, groupUuid, groupTelegramId, excludeBotId, dbOk) ==
    IF ~dbOk THEN NoBot
    ELSE rotate(botFindMany(bs, groupTelegramId, NoBot),
                lastMessageBotId(msgs, groupUuid))
selectNextBotRethrow(bs, msgs, groupUuid, groupTelegramId, excludeBotId, dbOk) ==
    IF ~dbOk THEN -1
    ELSE rotate(botFindMany(bs, groupTelegramId, excludeBotId),
                lastMessageBotId(msgs, groupUuid))
selectNextBot(bs, msgs, groupUuid, groupTelegramId, excludeBotId, dbOk) ==
    IF ~dbOk THEN NoBot
    ELSE rotate(botFindMany(bs, groupTelegramId, excludeBotId),
                lastMessageBotId(msgs, groupUuid))

\* selectNextBot(groupId, excludeBotId) of services/messageQueue.ts: one id
\* is used for both lookups.
selectNextBot2(bs, msgs, groupId, excludeBotId, dbOk) ==
    IF ~dbOk THEN NoBot
    ELSE rotate(botFindMany(bs, groupId, excludeBotId),
                lastMessageBotId(msgs, groupId))

\* ------------------------------------------------------ the rate limiter

\* const RATE_LIMIT_WINDOW = 1000; const MAX_REQUESTS_PER_WINDOW = 1;
RATE_LIMIT_WINDOW == 1000
MAX_REQUESTS_PER_WINDOW == 1

\* redis.expire(key, 2): seconds.
expireSeconds == 2

\* No time: a key without deadline, no earlier call.
NoTime == -1

\* The bots whose keys `ratelimit:bot:${botId}` the limiter is called for.
LimitedBots == {1, 2}

\* The bot whose calls the histories follow; the calls for the other bots
\* run in between on keys of their own.
Watched == {CHOOSE b \in LimitedBots : \A c \in LimitedBots : b <= c}

\* const key = `ratelimit:bot:${botId}`: the prefix, then the id.
keyShared(botId) == <<"ratelimit:bot:">>
key(botId) == <<"ratelimit:bot:", botId>>

\* The keys of the limiter in Redis.
Keys == {key(b) : b \in LimitedBots}

\* Date.now() when the limiter specification starts.
StartTime == expireSeconds * RATE_LIMIT_WINDOW

\* How far the clock moves between two steps.
TimeSteps == {RATE_LIMIT_WINDOW \div 2, RATE_LIMIT_WINDOW}

\* Which Redis command of a checkRateLimit call throws, if any does.
FailAts == {"none", "zremrangebyscore", "zcard", "zrange", "zadd", "expire"}

\* The key as a command at time t finds it: once its deadline has passed
\* Redis has dropped it.
keyAt(z, exp, t) ==
    IF exp # NoTime /\ t >= exp
    THEN [z |-> {}, exp |-> NoTime]
    ELSE [z |-> z, exp |-> exp]

\* redis.zremrangebyscore(key, 0, max): both ends inclusive; a sorted set
\* left empty is deleted, and its deadline with it.
zremrangebyscoreExclusive(k, max) ==
    LET z == {s \in k.z : ~(0 <= s /\ s < max)}
    IN  [z |-> z, exp |-> IF z = {} THEN NoTime ELSE k.exp]
zremrangebyscore(k, max) ==
    LET z == {s \in k.z : ~(0 <= s /\ s <= max)}
    IN  [z |-> z, exp |-> IF z = {} THEN NoTime ELSE k.exp]

\* redis.zrange(key, 0, 0, 'WITHSCORES'): the lowest score.
oldestScore(z) == CHOOSE s \in z : \A u \in z : s <= u

\* Math.max(0, RATE_LIMIT_WINDOW - (now - parseInt(oldest[1], 10)))
resetInSinceStart(t, oldest) == RATE_LIMIT_WINDOW + (t - oldest)
resetInOf(t, oldest) ==
    LET r == RATE_LIMIT_WINDOW - (t - oldest)
    IN  IF r > 0 THEN r ELSE 0

\* The result of the catch block: `{ allowed: true, remaining: 0, resetIn: 0 }`.
failClosed == [allowed |-> FALSE, remaining |-> 0, resetIn |-> RATE_LIMIT_WINDOW]
failOpen == [allowed |-> TRUE, remaining |-> 0, resetIn |-> 0]

\* checkRateLimit at time t on the key (z, exp): the result, the key after
\* the call, and whether the catch block ran. A command that the call does
\* not reach cannot fail it.
checkRateLimit(z, exp, t, failAt) ==
    LET windowStart == t - RATE_LIMIT_WINDOW
        k0 == keyAt(z, exp, t)
        k1 == zremrangebyscore(k0, windowStart)
        count == Cardinality(k1.z)
        k2 == [z |-> k1.z \cup {t}, exp |-> k1.exp]
        k3 == [z |-> k2.z, exp |-> t + expireSeconds * 1000]
        caught(k) == [res |-> failOpen, key |-> k, failed |-> TRUE]
    IN  IF failAt = "zremrangebyscore" THEN caught(k0)
        ELSE IF failAt = "zcard" THEN caught(k1)
        ELSE IF count >= MAX_REQUESTS_PER_WINDOW
        THEN IF failAt = "zrange" THEN caught(k1)
             ELSE [res |-> [allowed |-> FALSE, remaining |-> 0,
                            resetIn |-> IF k1.z # {}
                                        THEN resetInOf(t, oldestScore(k1.z))
                                        ELSE RATE_LIMIT_WINDOW],
                   key |-> k1, failed |-> FALSE]
        ELSE IF failAt = "zadd" THEN caught(k1)
        ELSE IF failAt = "expire" THEN caught(k2)
        ELSE [res |-> [allowed |-> TRUE,
                       remaining |-> MAX_REQUESTS_PER_WINDOW - count - 1,
                       resetIn |-> 0],
              key |-> k3, failed |-> FALSE]

\* No processMessage call is at or after its waitForRateLimit; the last
\* step made no checkRateLimit call; waitForRateLimit did not return in the
\* last step.
NoWaiter == [bot |-> NoBot, wakeAt |-> NoTime, passed |-> FALSE]
NoCheck == [fn |-> "none", bot |-> NoBot, at |-> NoTime, allowed |-> FALSE,
            resetIn |-> 0, failed |-> FALSE, prevAdmit |-> NoTime,
            due |-> NoTime]
NoReturn == [bot |-> NoBot, gap |-> NoTime, slept |-> FALSE]

\* The limiter before its first call.
LimiterInit ==
    /\ now = StartTime
    /\ zsets = [k \in Keys |-> {}]
    /\ expireAt = [k \in Keys |-> NoTime]
    /\ waiter = NoWaiter
    /\ lastAdmit = [b \in Watched |-> NoTime]
    /\ lastDeny = [b \in Watched |-> NoTime]
    /\ lastPass = [b \in Watched |-> NoTime]
    /\ redisFailed = FALSE
    /\ lastCheck = NoCheck
    /\ lastReturn = NoReturn

\* ------------------------------------------------- the administration

\* The last step answered no registerBot call.
NoReg == [input |-> "none", wasRegistered |-> FALSE, status |-> 0]

\* prisma.group rows as registerBot and deleteBot keep them for a Bot table
\* bs: one row per group a bot was registered in, counting its bots.
groupsOf(bs) ==
    [g \in {bs[b].groupId : b \in DOMAIN bs} |->
        Cardinality({b \in DOMAIN bs : bs[b].groupId = g})]

\* Every registered bot got its webhook set and no registerBot call runs.
AdminInit ==
    /\ groups = groupsOf(bots)
    /\ webhooks = DOMAIN bots
    /\ pending = EmptyBag
    /\ lastReg = NoReg

\* No job has been added by either queue service.
NoDelays == [first |-> NoTime, chained |-> NoTime, legacy |-> NoTime]

EnqueueInit == delays = NoDelays

\* No update has reached handleWebhook.
NoUpdate == [token |-> NoBot, chatId |-> 0, chatType |-> "none",
             hasText |-> FALSE, msg |-> 0, sender |-> NoBot]

GateInit == lastUpdate = NoUpdate

\* ------------------------------------------ the selection specification

\* No processMessage call is in progress.
NoJob == [botId |-> NoBot, groupId |-> NoBot, groupTelegramId |-> NoBot,
          replyToMsgId |-> NoBot, attemptsMade |-> 0, sends |-> 0]
NoRun == [job |-> NoJob, pc |-> "idle", sentId |-> NoBot,
          persisted |-> FALSE, sendNull |-> FALSE]

\* The last step enqueued nothing; the last step ended no delivery attempt.
NoEnq == [origin |-> "none", bot |-> NoBot, by |-> NoBot, redo |-> FALSE,
          sent |-> FALSE, persisted |-> FALSE, clean |-> FALSE]
NoOutcome == [result |-> "none", sendNull |-> FALSE, delivered |-> FALSE]

NoSel == [fn |-> "none", group |-> 0, excl |-> 0, dbOk |-> TRUE, res |-> 0]

InitSel ==
    /\ \E g \in [BotIds -> GroupTgIds] :
           bots = [b \in BotIds |->
                      [groupId |-> g[b], isActive |-> TRUE, createdAt |-> b]]
    /\ messages = <<>>
    /\ chat = {}
    /\ nextMsgId = 1
    /\ handlers = EmptyBag
    /\ deliveries = 0
    /\ handled = {}
    /\ queue = EmptyBag
    /\ active = NoRun
    /\ ingressLog = {}
    /\ lastEnq = NoEnq
    /\ lastOutcome = NoOutcome
    /\ sel = NoSel
    /\ LimiterInit
    /\ AdminInit
    /\ EnqueueInit
    /\ GateInit

\* toggleBot: isActive := !isActive.
ToggleBot(b) ==
    /\ sel = NoSel
    /\ b \in DOMAIN bots
    /\ bots' = [bots EXCEPT ![b].isActive = ~bots[b].isActive]
    /\ UNCHANGED <<messages, chat, nextMsgId, handlers, deliveries, handled,
                   queue, active, ingressLog, sel>>
    /\ lastEnq' = NoEnq
    /\ lastOutcome' = NoOutcome
    /\ lastReg' = NoReg
    /\ UNCHANGED <<groups, webhooks, pending>>
    /\ UNCHANGED <<limiterVars, enqueueVars, gateVars>>

\* A row enters the Message table, by a handler (credited to the sending or
\* the receiving bot) or by a job (credited to the job's bot): in each case
\* a bot registered in the group of the message.
StoreMessage(b, g, isAi) ==
    /\ sel = NoSel
    /\ Len(messages) < MaxStored
    /\ b \in DOMAIN bots
    /\ bots[b].groupId = g
    /\ messages' = messageCreate(messages, b, GroupUuid(g), isAi,
                                 Len(messages) + 1)
    /\ UNCHANGED <<bots, chat, nextMsgId, handlers, deliveries, handled,
                   queue, active, ingressLog, lastEnq, lastOutcome, sel>>
    /\ UNCHANGED besidesRelay

\* A call selectNextBot(GroupUuid(g), g, excl) on the current store.
SelectCall(g, excl, dbOk) ==
    /\ sel = NoSel
    /\ sel' = [fn |-> "selectNextBot", group |-> g, excl |-> excl,
               dbOk |-> dbOk,
               res |-> selectNextBot(bots, messages, GroupUuid(g), g, excl, dbOk)]
    /\ UNCHANGED <<bots, messages, chat, nextMsgId, handlers, deliveries,
                   handled, queue, active, ingressLog, lastEnq, lastOutcome>>
    /\ UNCHANGED besidesRelay

\* A call of the two-argument selectNextBot(g, excl).
SelectCall2(g, excl, dbOk) ==
    /\ sel = NoSel
    /\ sel' = [fn |-> "selectNextBot2", group |-> g, excl |-> excl,
               dbOk |-> dbOk,
               res |-> selectNextBot2(bots, messages, g, excl, dbOk)]
    /\ UNCHANGED <<bots, messages, chat, nextMsgId, handlers, deliveries,
                   handled, queue, active, ingressLog, lastEnq, lastOutcome>>
    /\ UNCHANGED besidesRelay

\* The caller drops the result.
SelectReturn ==
    /\ sel # NoSel
    /\ sel' = NoSel
    /\ UNCHANGED <<bots, messages, chat, nextMsgId, handlers, deliveries,
                   handled, queue, active, ingressLog, lastEnq, lastOutcome>>
    /\ UNCHANGED besidesRelay

NextSel ==
    \/ \E b \in BotIds : ToggleBot(b)
    \/ \E b \in BotIds, g \in GroupTgIds, isAi \in BOOLEAN :
           StoreMessage(b, g, isAi)
    \/ \E g \in GroupTgIds, excl \in BotIds \cup {NoBot}, dbOk \in BOOLEAN :
           SelectCall(g, excl, dbOk)
    \/ \E g \in GroupTgIds, excl \in BotIds \cup {NoBot}, dbOk \in BOOLEAN :
           SelectCall2(g, excl, dbOk)
    \/ SelectReturn

SpecSel == InitSel /\ [][NextSel]_vars

\* ---------------------------------------------- the relay specification

\* All bots registered in one group and active; nothing stored or queued.
Init ==
    /\ bots = [b \in BotIds |->
                  [groupId |-> TheGroup, isActive |-> TRUE, createdAt |-> b]]
    /\ messages = <<>>
    /\ chat = {}
    /\ nextMsgId = 1
    /\ handlers = EmptyBag
    /\ deliveries = 0
    /\ handled = {}
    /\ queue = EmptyBag
    /\ active = NoRun
    /\ ingressLog = {}
    /\ lastEnq = NoEnq
    /\ lastOutcome = NoOutcome
    /\ sel = NoSel
    /\ LimiterInit
    /\ AdminInit
    /\ EnqueueInit
    /\ GateInit

\* A human posts a text message in the group chat; the platform numbers it.
HumanPost ==
    /\ nextMsgId <= MaxMsgIds
    /\ chat' = chat \cup {nextMsgId}
    /\ nextMsgId' = nextMsgId + 1
    /\ UNCHANGED <<bots, messages, handlers, deliveries, handled, queue,
                   active, ingressLog, sel>>
    /\ UNCHANGED besidesRelay
    /\ lastEnq' = NoEnq
    /\ lastOutcome' = NoOutcome

\* prisma.bot.findFirst({where: {username: senderUsername, groupId: chatId}})
\* for a sender that is a bot; null for a human sender.
sendingBotNone(bs, sender, chatId) == NoBot
sendingBot(bs, sender, chatId) ==
    IF sender \in DOMAIN bs /\ bs[sender].groupId = chatId
    THEN sender ELSE NoBot

\* handleWebhook returns: its locals are gone.
finish(r) ==
    /\ handlers' = handlers (-) SetToBag({r})
    /\ handled' = handled \cup {<<r.bot, r.msg>>}

\* messageQueue.add(data, {attempts: 3, ...}): the new Bull job, for data
\* without a replyToMsgId. Besides the data and Bull's attemptsMade the job
\* carries a history: the number of messages its attempts have sent.
newJob(botId, chatId) ==
    [botId |-> botId, groupId |-> GroupUuid(chatId),
     groupTelegramId |-> chatId, replyToMsgId |-> NoBot,
     attemptsMade |-> 0, sends |-> 0]

\* The data of the job processMessage chains after job j for nextBot.
chainJobKeepReply(j, nextBot) ==
    [newJob(nextBot, j.groupTelegramId) EXCEPT
        !.replyToMsgId = j.replyToMsgId]
chainJob(j, nextBot) == newJob(nextBot, j.groupTelegramId)

\* An update for message m of the chat, with from.username that of sender
\* (a bot, or NoBot for a human), is posted to the webhook of bot b (a first
\* delivery or a redelivery). handleWebhook runs up to the duplicate check:
\* the bot and group lookups and message.findFirst.
WebhookReceiveFrom(b, m, sender) ==
    /\ deliveries < MaxDeliveries
    /\ b \in DOMAIN bots
    /\ m \in chat
    /\ handlers' = handlers (+) SetToBag(
           {[bot |-> b, msg |-> m, chatId |-> TheGroup, sender |-> sender,
             existing |-> existingMessage(messages, GroupUuid(TheGroup), m),
             redo |-> <<b, m>> \in handled]})
    /\ deliveries' = deliveries + 1
    /\ UNCHANGED <<bots, messages, chat, nextMsgId, handled, queue, active,
                   ingressLog, sel>>
    /\ UNCHANGED besidesRelay
    /\ lastEnq' = NoEnq
    /\ lastOutcome' = NoOutcome

\* The platform delivers the posts of humans only (a bot is not shown what
\* other bots post), so the sender of a message it delivers is no
\* registered bot.
WebhookReceive(b, m) == WebhookReceiveFrom(b, m, NoBot)

\* The rest of handleWebhook, from the outcome of the duplicate check on:
\* message.create unless a row was found; the test `!sendingBot ||
\* sendingBot.id !== bot.id`; selectNextBot(group.id, group.telegramId,
\* sendingBot?.id || ''); the test that this handler's bot is the chosen
\* one; initializeBot and addToQueue, whose error the handler catches and
\* logs. What this handler adds to the queue is decided by its selection,
\* and its own row, which is no AI row, does not enter any selection, so
\* the awaits after the create are not modelled as separate steps.
WebhookRespond(r, dbOk, ok) ==
    /\ BagIn(r, handlers)
    /\ LET sb == sendingBot(bots, r.sender, r.chatId)
           author == IF sb # NoBot THEN sb ELSE r.bot
           \* the insert throws when the Bot row of the author is gone
           \* (Message_botId_fkey): the catch of handleWebhook logs it
           createOk == r.existing \/ author \in DOMAIN bots
           stored == IF r.existing \/ ~createOk THEN messages
                     ELSE messageCreate(messages, author,
                                        GroupUuid(r.chatId), sb # NoBot,
                                        r.msg)
           nextBot == IF createOk /\ (sb = NoBot \/ sb # r.bot)
                      THEN selectNextBot(bots, stored, GroupUuid(r.chatId),
                                         r.chatId, sb, dbOk)
                      ELSE NoBot
       IN  /\ messages' = stored
           /\ IF nextBot # NoBot /\ nextBot # sb /\ nextBot = r.bot /\ ok
              THEN /\ queue' = queue (+) SetToBag({newJob(r.bot, r.chatId)})
                   /\ ingressLog' = ingressLog \cup
                          {[msg |-> r.msg, bot |-> r.bot]}
                   /\ lastEnq' = [origin |-> "ingress", bot |-> r.bot,
                                  by |-> r.bot, redo |-> r.redo,
                                  sent |-> FALSE, persisted |-> FALSE,
                                  clean |-> FALSE]
              ELSE /\ UNCHANGED <<queue, ingressLog>>
                   /\ lastEnq' = NoEnq
    /\ finish(r)
    /\ UNCHANGED <<bots, chat, nextMsgId, deliveries, active, sel>>
    /\ UNCHANGED besidesRelay
    /\ lastOutcome' = NoOutcome

\* processMessage returned: Bull moves the job to completed.
complete(sendNull) ==
    /\ lastOutcome' = [result |-> "completed", sendNull |-> sendNull,
                       delivered |-> active.persisted]
    /\ active' = NoRun

\* processMessage threw: Bull retries the same job after its backoff while
\* attempts remain, and moves it to failed after the last one.
failAttemptSwallowed ==
    /\ UNCHANGED queue
    /\ complete(active.sendNull)
failAttemptForever ==
    /\ queue' = queue (+) SetToBag(
           {[active.job EXCEPT !.attemptsMade = @ + 1]})
    /\ lastOutcome' = [result |-> "retry", sendNull |-> active.sendNull,
                       delivered |-> active.persisted]
    /\ active' = NoRun
failAttempt ==
    /\ IF active.job.attemptsMade + 1 < attempts
       THEN /\ queue' = queue (+) SetToBag(
                   {[active.job EXCEPT !.attemptsMade = @ + 1]})
            /\ lastOutcome' = [result |-> "retry",
                               sendNull |-> active.sendNull,
                               delivered |-> active.persisted]
       ELSE /\ UNCHANGED queue
            /\ lastOutcome' = [result |-> "failed",
                               sendNull |-> active.sendNull,
                               delivered |-> active.persisted]
    /\ active' = NoRun

\* The processor (concurrency 1) takes a job whose delay has passed, and
\* processMessage runs up to its first query: waitForRateLimit(botId), which
\* returns in every case (checkRateLimit catches the errors of Redis).
JobStart(j) ==
    /\ active = NoRun
    /\ BagIn(j, queue)
    /\ queue' = queue (-) SetToBag({j})
    /\ active' = [NoRun EXCEPT !.job = j, !.pc = "load"]
    /\ UNCHANGED <<bots, messages, chat, nextMsgId, handlers, deliveries,
                   handled, ingressLog, sel>>
    /\ UNCHANGED besidesRelay
    /\ lastEnq' = NoEnq
    /\ lastOutcome' = NoOutcome

\* message.findMany of the recent messages (the context of the reply); an
\* error is rethrown by processMessage.
JobLoad(ok) ==
    /\ active.pc = "load"
    /\ IF ok
       THEN /\ active' = [active EXCEPT !.pc = "generate"]
            /\ lastOutcome' = NoOutcome
            /\ UNCHANGED queue
       ELSE failAttempt
    /\ UNCHANGED <<bots, messages, chat, nextMsgId, handlers, deliveries,
                   handled, ingressLog, sel>>
    /\ UNCHANGED besidesRelay
    /\ lastEnq' = NoEnq

\* generateResponse, which throws when every configured provider failed or
\* none is configured; the error is rethrown by processMessage.
JobGenerate(ok) ==
    /\ active.pc = "generate"
    /\ IF ok
       THEN /\ active' = [active EXCEPT !.pc = "send"]
            /\ lastOutcome' = NoOutcome
            /\ UNCHANGED queue
       ELSE failAttempt
    /\ UNCHANGED <<bots, messages, chat, nextMsgId, handlers, deliveries,
                   handled, ingressLog, sel>>
    /\ UNCHANGED besidesRelay
    /\ lastEnq' = NoEnq

\* `if (sentMessageId) {...}`: where processMessage goes after sendMessage.
afterSendPersistAnyway(sentMessageId) == "persist"
afterSendChainAnyway(sentMessageId) ==
    IF sentMessageId # NoBot THEN "persist" ELSE "select"
afterSend(sentMessageId) ==
    IF sentMessageId # NoBot THEN "persist" ELSE "done"

\* sendMessage: the platform's message id, or null when the platform call
\* threw (sendMessage catches the error and returns null).
JobSend(ok) ==
    /\ active.pc = "send"
    /\ ok => nextMsgId <= MaxMsgIds
    /\ LET sentMessageId == IF ok THEN nextMsgId ELSE NoBot
       IN  /\ nextMsgId' = IF ok THEN nextMsgId + 1 ELSE nextMsgId
           /\ IF afterSend(sentMessageId) = "done"
              THEN complete(~ok)
              ELSE /\ active' = [active EXCEPT
                                    !.pc = afterSend(sentMessageId),
                                    !.sentId = sentMessageId,
                                    !.sendNull = ~ok,
                                    !.job.sends = IF ok THEN @ + 1 ELSE @]
                   /\ lastOutcome' = NoOutcome
    /\ UNCHANGED <<bots, messages, chat, handlers, deliveries, handled,
                   queue, ingressLog, sel>>
    /\ UNCHANGED besidesRelay
    /\ lastEnq' = NoEnq

\* message.create of the sent message (isAiGenerated: true); an error is
\* rethrown by processMessage. The insert fails when the Bot row of botId is
\* gone (Message_botId_fkey).
JobPersist(ok) ==
    /\ active.pc = "persist"
    /\ IF ok /\ active.job.botId \in DOMAIN bots
       THEN /\ messages' = messageCreate(messages, active.job.botId,
                               active.job.groupId, TRUE, active.sentId)
            /\ active' = [active EXCEPT !.pc = "select", !.persisted = TRUE]
            /\ lastOutcome' = NoOutcome
            /\ UNCHANGED queue
       ELSE /\ failAttempt
            /\ UNCHANGED messages
    /\ UNCHANGED <<bots, chat, nextMsgId, handlers, deliveries, handled,
                   ingressLog, sel>>
    /\ UNCHANGED besidesRelay
    /\ lastEnq' = NoEnq

\* The automatic relay: selectNextBot(groupId, groupTelegramId, botId); on
\* null processMessage logs and returns; else addToQueue for the next bot,
\* the last await of processMessage, whose error reaches the catch of
\* processMessage and is rethrown.
JobChain(dbOk, ok) ==
    /\ active.pc = "select"
    /\ LET j == active.job
           nextBot == selectNextBot(bots, messages, j.groupId,
                                    j.groupTelegramId, j.botId, dbOk)
       IN  IF nextBot = NoBot
           THEN /\ complete(active.sendNull)
                /\ lastEnq' = NoEnq
                /\ UNCHANGED queue
           ELSE IF ok
           THEN /\ queue' = queue (+) SetToBag({chainJob(j, nextBot)})
                /\ complete(active.sendNull)
                /\ lastEnq' =
                       [origin |-> "chain", bot |-> nextBot, by |-> j.botId,
                        redo |-> FALSE,
                        sent |-> active.sentId # NoBot,
                        persisted |->
                            \E i \in DOMAIN messages :
                                /\ messages[i].telegramMsgId = active.sentId
                                /\ messages[i].groupId = j.groupId
                                /\ messages[i].botId = j.botId
                                /\ messages[i].isAiGenerated,
                        clean |-> lastMessageBotId(messages, j.groupId)
                                      = j.botId]
           ELSE /\ failAttempt
                /\ lastEnq' = NoEnq
    /\ UNCHANGED <<bots, messages, chat, nextMsgId, handlers, deliveries,
                   handled, ingressLog, sel>>
    /\ UNCHANGED besidesRelay

Next ==
    \/ HumanPost
    \/ \E b \in BotIds, m \in 1..MaxMsgIds : WebhookReceive(b, m)
    \/ \E r \in BagToSet(handlers), dbOk \in BOOLEAN, ok \in BOOLEAN :
           WebhookRespond(r, dbOk, ok)
    \/ \E j \in BagToSet(queue) : JobStart(j)
    \/ \E ok \in BOOLEAN : JobLoad(ok)
    \/ \E ok \in BOOLEAN : JobGenerate(ok)
    \/ \E ok \in BOOLEAN : JobSend(ok)
    \/ \E ok \in BOOLEAN : JobPersist(ok)
    \/ \E dbOk \in BOOLEAN, ok \in BOOLEAN : JobChain(dbOk, ok)

Spec == Init /\ [][Next]_vars

\* ------------------------------------------- small groups, no failures

\* The steps of the relay in which no query, AI call, platform call or queue
\* call fails.
NextOk ==
    \/ HumanPost
    \/ \E b \in BotIds, m \in 1..MaxMsgIds : WebhookReceive(b, m)
    \/ \E r \in BagToSet(handlers) : WebhookRespond(r, TRUE, TRUE)
    \/ \E j \in BagToSet(queue) : JobStart(j)
    \/ JobLoad(TRUE)
    \/ JobGenerate(TRUE)
    \/ JobSend(TRUE)
    \/ JobPersist(TRUE)
    \/ JobChain(TRUE, TRUE)

\* The relay state in which exactly the bots of act are active.
InitActive(act) ==
    /\ bots = [b \in BotIds |->
                  [groupId |-> TheGroup, isActive |-> b \in act,
                   createdAt |-> b]]
    /\ messages = <<>>
    /\ chat = {}
    /\ nextMsgId = 1
    /\ handlers = EmptyBag
    /\ deliveries = 0
    /\ handled = {}
    /\ queue = EmptyBag
    /\ active = NoRun
    /\ ingressLog = {}
    /\ lastEnq = NoEnq
    /\ lastOutcome = NoOutcome
    /\ sel = NoSel
    /\ LimiterInit
    /\ AdminInit
    /\ EnqueueInit
    /\ GateInit

\* A group with exactly two active bots (any two of the registered ones);
\* the set of active bots does not change and nothing fails.
InitTwo == \E act \in SUBSET BotIds : Cardinality(act) = 2 /\ InitActive(act)

SpecTwo == InitTwo /\ [][NextOk]_vars

\* A group with exactly one active bot; any step may fail.
InitOne == \E act \in SUBSET BotIds : Cardinality(act) = 1 /\ InitActive(act)

SpecOne == InitOne /\ [][Next]_vars

\* --------------------------------------------------- deletion of a bot

\* prisma.group.update({data: {activeBots: {decrement: 1}}}).
decrement(gs, g) == [gs EXCEPT ![g] = @ - 1]

\* deleteBot: removeWebhook; prisma.bot.delete removes the Bot row, and with
\* it the Message rows of the bot (ON DELETE CASCADE); the Group row of the
\* bot's group gets its activeBots decremented.
DeleteBot(b) ==
    /\ b \in DOMAIN bots
    /\ webhooks' = webhooks \ {b}
    /\ bots' = [c \in DOMAIN bots \ {b} |-> bots[c]]
    /\ messages' = SelectSeq(messages, LAMBDA m : m.botId # b)
    /\ groups' = decrement(groups, bots[b].groupId)
    /\ lastEnq' = NoEnq
    /\ lastOutcome' = NoOutcome
    /\ lastReg' = NoReg
    /\ UNCHANGED <<chat, nextMsgId, handlers, deliveries, handled, queue,
                   active, ingressLog, sel>>
    /\ UNCHANGED <<limiterVars, enqueueVars, gateVars, pending>>

\* The bots that get deleted; the others stay registered.
Deletable == {1, 2}

\* The relay without failures of its own, with bots being deleted.
NextDel ==
    \/ NextOk
    \/ \E b \in Deletable : DeleteBot(b)

SpecDel == Init /\ [][NextDel]_vars

\* ------------------------------------------- the ingress specification

\* The bots whose webhooks get the updates, that are named as senders and
\* that are activated and deactivated; the other bots of the group stay
\* active and only take their turns in the selection.
IngressBots == {1, 2}

\* handleWebhook on its own: updates with any sender, a bot of the group
\* or a human, reach the webhooks while bots are activated and deactivated;
\* the queue is not processed.
NextIngress ==
    \/ HumanPost
    \/ \E b \in IngressBots, m \in 1..MaxMsgIds,
          sender \in IngressBots \cup {NoBot} :
           WebhookReceiveFrom(b, m, sender)
    \/ \E r \in BagToSet(handlers), dbOk \in BOOLEAN, ok \in BOOLEAN :
           WebhookRespond(r, dbOk, ok)
    \/ \E b \in IngressBots : ToggleBot(b)

SpecIngress == Init /\ [][NextIngress]_vars

\* ------------------------------------------ the update specification

\* A token no bot is registered with.
UnknownToken == MaxBots + 1

\* message.chat.type of the updates.
ChatTypes == {"group", "supergroup", "private"}

\* The updates posted to the webhooks: the token of the URL, the chat of the
\* message and its type, whether update.message?.text is there, the id of
\* the message and its sender, a human (the early returns do not read
\* message.from).
Updates ==
    [token : IngressBots \cup {UnknownToken}, chatId : GroupTgIds,
     chatType : ChatTypes, hasText : BOOLEAN, msg : 1..MaxMsgIds,
     sender : {NoBot}]

\* The early returns of handleWebhook on update u, bs the Bot table and gs
\* the Group table: a lookup that throws (dbOk false) is logged by the
\* catch block. "none" when the handler goes on to the sender lookup.
earlyReturnNoGroupCheck(bs, gs, u, dbOk) ==
    IF ~u.hasText THEN "no text"
    ELSE IF u.chatType # "group" /\ u.chatType # "supergroup"
    THEN "no group chat"
    ELSE IF ~dbOk THEN "error"
    ELSE IF u.token \notin DOMAIN bs THEN "unregistered bot"
    ELSE "none"
earlyReturn(bs, gs, u, dbOk) ==
    IF ~u.hasText THEN "no text"
    ELSE IF u.chatType # "group" /\ u.chatType # "supergroup"
    THEN "no group chat"
    ELSE IF ~dbOk THEN "error"
    ELSE IF u.token \notin DOMAIN bs THEN "unregistered bot"
    ELSE IF u.chatId \notin DOMAIN gs THEN "unregistered group"
    ELSE "none"

\* Update u is posted to the webhook of its token. handleWebhook answers 200
\* and runs up to the duplicate check, or returns before it. A text message
\* of the group of the relay is one that was posted there.
HandleWebhook(u, dbOk) ==
    /\ deliveries < MaxDeliveries
    /\ (u.hasText /\ u.chatId = TheGroup) => u.msg \in chat
    /\ lastUpdate' = u
    /\ deliveries' = deliveries + 1
    /\ handlers' =
           IF earlyReturn(bots, groups, u, dbOk) # "none" THEN handlers
           ELSE handlers (+) SetToBag(
                    {[bot |-> u.token, msg |-> u.msg, chatId |-> u.chatId,
                      sender |-> u.sender,
                      existing |-> existingMessage(messages,
                                                   GroupUuid(u.chatId), u.msg),
                      redo |-> <<u.token, u.msg>> \in handled]})
    /\ UNCHANGED <<bots, messages, chat, nextMsgId, handled, queue, active,
                   ingressLog, sel>>
    /\ UNCHANGED <<limiterVars, adminVars, enqueueVars>>
    /\ lastEnq' = NoEnq
    /\ lastOutcome' = NoOutcome

\* handleWebhook under updates of every kind; the queue is not processed.
NextGate ==
    \/ HumanPost
    \/ \E u \in Updates, dbOk \in BOOLEAN : HandleWebhook(u, dbOk)
    \/ \E r \in BagToSet(handlers), dbOk \in BOOLEAN, ok \in BOOLEAN :
           WebhookRespond(r, dbOk, ok)

SpecGate == Init /\ [][NextGate]_vars

\* ------------------------------------------ the delivery specification

\* The reply targets of a waiting job: none, or the message posted first.
ReplyTargets == {NoBot, 1}

\* One job waits in the queue, for an active bot b of the group, with reply
\* target r (MessageJobData.replyToMsgId is optional); when it has one, the
\* message replied to has been posted.
InitJobs ==
    \E b \in BotIds, r \in ReplyTargets :
        /\ bots = [c \in BotIds |->
                      [groupId |-> TheGroup, isActive |-> TRUE,
                       createdAt |-> c]]
        /\ messages = <<>>
        /\ chat = IF r = NoBot THEN {} ELSE {r}
        /\ nextMsgId = IF r = NoBot THEN 1 ELSE r + 1
        /\ handlers = EmptyBag
        /\ deliveries = 0
        /\ handled = {}
        /\ queue = SetToBag({[newJob(b, TheGroup) EXCEPT !.replyToMsgId = r]})
        /\ active = NoRun
        /\ ingressLog = {}
        /\ lastEnq = NoEnq
        /\ lastOutcome = NoOutcome
        /\ sel = NoSel
        /\ LimiterInit
        /\ AdminInit
        /\ EnqueueInit
        /\ GateInit

\* The queue processor, with every failure of its steps, while bots are
\* activated and deactivated.
NextJobs ==
    \/ \E j \in BagToSet(queue) : JobStart(j)
    \/ \E ok \in BOOLEAN : JobLoad(ok)
    \/ \E ok \in BOOLEAN : JobGenerate(ok)
    \/ \E ok \in BOOLEAN : JobSend(ok)
    \/ \E ok \in BOOLEAN : JobPersist(ok)
    \/ \E dbOk \in BOOLEAN, ok \in BOOLEAN : JobChain(dbOk, ok)
    \/ \E b \in BotIds : ToggleBot(b)

SpecJobs == InitJobs /\ [][NextJobs]_vars

\* ------------------------------------- the administration specification

\* The store before the first registration.
InitAdmin ==
    /\ bots = [b \in {} |-> NoJob]
    /\ messages = <<>>
    /\ chat = {}
    /\ nextMsgId = 1
    /\ handlers = EmptyBag
    /\ deliveries = 0
    /\ handled = {}
    /\ queue = EmptyBag
    /\ active = NoRun
    /\ ingressLog = {}
    /\ lastEnq = NoEnq
    /\ lastOutcome = NoOutcome
    /\ sel = NoSel
    /\ LimiterInit
    /\ AdminInit
    /\ EnqueueInit
    /\ GateInit

\* The tokens that get registered.
Tokens == {1, 2}

\* The request bodies of registerBot: complete with a token the platform
\* accepts, one of token, groupId, personality missing, or complete with a
\* token the platform rejects (validateToken returns null).
RegInputs == {"ok", "missing", "invalid"}

\* The checks registerBot makes before it writes: the status it answers
\* with, or 0 when all of them pass.
registerChecksNoDuplicate(bs, token, input) ==
    IF input = "missing" THEN 400
    ELSE IF input = "invalid" THEN 400
    ELSE 0
registerChecks(bs, token, input) ==
    IF input = "missing" THEN 400
    ELSE IF token \in DOMAIN bs THEN 409
    ELSE IF input = "invalid" THEN 400
    ELSE 0

\* prisma.group.upsert: create with activeBots 1 or increment activeBots.
upsert(gs, g) ==
    IF g \in DOMAIN gs THEN [gs EXCEPT ![g] = @ + 1]
    ELSE [h \in DOMAIN gs \cup {g} |-> IF h = g THEN 1 ELSE gs[h]]

\* createdAt of a Bot row created now: later than every row there is.
createdNow(bs) ==
    IF DOMAIN bs = {} THEN 1
    ELSE 1 + CHOOSE t \in {bs[b].createdAt : b \in DOMAIN bs} :
                 \A b \in DOMAIN bs : bs[b].createdAt <= t

\* registerBot up to validateToken: the field check, the lookup of the
\* token and the platform's getMe. A failed check is answered at once.
RegisterBot(token, g, input) ==
    /\ LET status == registerChecks(bots, token, input)
       IN  /\ status = 0 => BagCardinality(pending) < MaxPending
           /\ lastReg' = [input |-> input,
                          wasRegistered |-> token \in DOMAIN bots,
                          status |-> status]
           /\ pending' = IF status = 0
                         THEN pending (+) SetToBag(
                                  {[token |-> token, groupId |-> g]})
                         ELSE pending
    /\ UNCHANGED <<groups, webhooks>>
    /\ UNCHANGED <<relayVars, limiterVars, enqueueVars, gateVars>>

\* The rest of registerBot: group.upsert, bot.create (which throws on a
\* token that was registered meanwhile, Bot_token_key, or when the store
\* fails) and setWebhook, whose failure is only logged. An error is answered
\* with 500; the two writes are not in one transaction.
RegisterStore(p, dbOk, hookOk) ==
    /\ BagIn(p, pending)
    /\ pending' = pending (-) SetToBag({p})
    /\ createdNow(bots) <= MaxCreatedAt
    /\ p.groupId \in DOMAIN groups => groups[p.groupId] < MaxCount
    /\ groups' = upsert(groups, p.groupId)
    /\ LET created == dbOk /\ p.token \notin DOMAIN bots
       IN  /\ bots' = IF created
                      THEN [b \in DOMAIN bots \cup {p.token} |->
                               IF b = p.token
                               THEN [groupId |-> p.groupId, isActive |-> TRUE,
                                     createdAt |-> createdNow(bots)]
                               ELSE bots[b]]
                      ELSE bots
           /\ webhooks' = IF created /\ hookOk
                          THEN webhooks \cup {p.token} ELSE webhooks
           /\ lastReg' = [input |-> "ok",
                          wasRegistered |-> p.token \in DOMAIN bots,
                          status |-> IF created THEN 201 ELSE 500]
    /\ UNCHANGED <<messages, chat, nextMsgId, handlers, deliveries, handled,
                   queue, active, ingressLog, lastEnq, lastOutcome, sel>>
    /\ UNCHANGED <<limiterVars, enqueueVars, gateVars>>

NextAdmin ==
    \/ \E token \in Tokens, g \in GroupTgIds, input \in RegInputs :
           RegisterBot(token, g, input)
    \/ \E p \in BagToSet(pending), dbOk \in BOOLEAN, hookOk \in BOOLEAN :
           RegisterStore(p, dbOk, hookOk)
    \/ \E b \in Tokens : ToggleBot(b)
    \/ \E b \in Tokens : DeleteBot(b)

SpecAdmin == InitAdmin /\ [][NextAdmin]_vars

\* The administration while the store answers every query.
NextAdminOk ==
    \/ \E token \in Tokens, g \in GroupTgIds, input \in RegInputs :
           RegisterBot(token, g, input)
    \/ \E p \in BagToSet(pending), hookOk \in BOOLEAN :
           RegisterStore(p, TRUE, hookOk)
    \/ \E b \in Tokens : ToggleBot(b)
    \/ \E b \in Tokens : DeleteBot(b)

SpecAdminOk == InitAdmin /\ [][NextAdminOk]_vars

\* ------------------------------------------ the enqueue specification

\* The relay specification adds the job (newJob) and leaves its delay to
\* the choice of JobStart; here the delay addToQueue computes is followed.

\* One second, in the milliseconds Bull counts delays in.
Second == 1000

\* Math.random() * k floored, for Math.random() = u / RandomSteps.
randomBelow(k, u) == (u * k) \div RandomSteps

\* addToQueue of the relay queue service:
\* `Math.floor(Math.random() * 1000) + 500`.
delayOf(u) == randomBelow(1000, u) + 500

\* addToQueue of services/messageQueue.ts:
\* `Math.floor(Math.random() * 2000) + 3000`.
delayOf2(u) == randomBelow(2000, u) + 3000

\* The callers of addToQueue of the relay queue service: handleWebhook
\* (a first response) and the chain step of processMessage.
JobKinds == {"first", "chained"}

\* addToQueue(data) of the relay queue service, called for a job of the
\* given kind: the delay it passes to messageQueue.add.
AddToQueue(kind, u) ==
    /\ delays' = [delays EXCEPT ![kind] = delayOf(u)]
    /\ UNCHANGED <<relayVars, limiterVars, adminVars, gateVars>>

\* addToQueue(data) of services/messageQueue.ts, whose processMessage chains
\* nothing: every job is a first response.
AddToQueue2(u) ==
    /\ delays' = [delays EXCEPT !.legacy = delayOf2(u)]
    /\ UNCHANGED <<relayVars, limiterVars, adminVars, gateVars>>

NextEnqueue ==
    \/ \E kind \in JobKinds, u \in 0..(RandomSteps - 1) : AddToQueue(kind, u)
    \/ \E u \in 0..(RandomSteps - 1) : AddToQueue2(u)

SpecEnqueue == Init /\ [][NextEnqueue]_vars

\* -------------------------------------------- the limiter specification

\* What a checkRateLimit(b) call with outcome c leaves behind: the key, and
\* the histories of failures, admissions and denials.
checkEffects(b, c) ==
    /\ zsets' = [zsets EXCEPT ![key(b)] = c.key.z]
    /\ expireAt' = [expireAt EXCEPT ![key(b)] = c.key.exp]
    /\ redisFailed' = (redisFailed \/ c.failed)
    /\ lastAdmit' = IF b \in Watched /\ c.res.allowed
                    THEN [lastAdmit EXCEPT ![b] = now] ELSE lastAdmit
    /\ lastDeny' = IF b \notin Watched THEN lastDeny
                   ELSE IF ~c.res.allowed
                   THEN [lastDeny EXCEPT ![b] = now + c.res.resetIn]
                   ELSE IF now \in c.key.z
                   THEN [lastDeny EXCEPT ![b] = NoTime]
                   ELSE lastDeny

\* The record of a checkRateLimit(b) call made by fn with outcome c.
checkRecord(fn, b, c) ==
    [fn |-> fn, bot |-> b, at |-> now, allowed |-> c.res.allowed,
     resetIn |-> c.res.resetIn, failed |-> c.failed,
     prevAdmit |-> IF b \in Watched THEN lastAdmit[b] ELSE NoTime,
     due |-> IF b \in Watched THEN lastDeny[b] ELSE NoTime]

\* waitForRateLimit(b) returns: processMessage goes on to its queries, the
\* AI call and the send.
returned(b, slept) ==
    /\ waiter' = [bot |-> b, wakeAt |-> now, passed |-> TRUE]
    /\ lastReturn' = [bot |-> b, slept |-> slept,
                      gap |-> IF b \in Watched /\ lastPass[b] # NoTime
                              THEN now - lastPass[b] ELSE NoTime]
    /\ lastPass' = IF b \in Watched
                   THEN [lastPass EXCEPT ![b] = now] ELSE lastPass

\* Time passes.
Tick(d) ==
    /\ now + d <= StartTime + MaxTime
    /\ now' = now + d
    /\ lastCheck' = NoCheck
    /\ lastReturn' = NoReturn
    /\ UNCHANGED <<zsets, expireAt, waiter, lastAdmit, lastDeny, lastPass,
                   redisFailed>>
    /\ UNCHANGED besidesLimiter

\* A call of the exported checkRateLimit(b).
CheckRateLimit(b, failAt) ==
    /\ LET c == checkRateLimit(zsets[key(b)], expireAt[key(b)], now,
                                failAt)
       IN  /\ checkEffects(b, c)
           /\ lastCheck' = checkRecord("checkRateLimit", b, c)
    /\ lastReturn' = NoReturn
    /\ UNCHANGED <<now, waiter, lastPass>>
    /\ UNCHANGED besidesLimiter

\* processMessage calls waitForRateLimit(b): one checkRateLimit, then a
\* setTimeout of resetIn when the call was denied with a positive resetIn.
\* The one process runs one job at a time, so no other call is sleeping.
WaitForRateLimit(b, failAt) ==
    /\ waiter = NoWaiter
    /\ LET c == checkRateLimit(zsets[key(b)], expireAt[key(b)], now,
                                failAt)
       IN  /\ checkEffects(b, c)
           /\ lastCheck' = checkRecord("waitForRateLimit", b, c)
           /\ IF ~c.res.allowed /\ c.res.resetIn > 0
              THEN /\ waiter' = [bot |-> b, wakeAt |-> now + c.res.resetIn,
                                   passed |-> FALSE]
                   /\ lastReturn' = NoReturn
                   /\ UNCHANGED lastPass
              ELSE returned(b, FALSE)
    /\ UNCHANGED now
    /\ UNCHANGED besidesLimiter

\* The timer of the sleeping waitForRateLimit call fires: the call returns
\* without another check.
WakeUp ==
    /\ waiter # NoWaiter
    /\ ~waiter.passed
    /\ now >= waiter.wakeAt
    /\ returned(waiter.bot, TRUE)
    /\ lastCheck' = NoCheck
    /\ UNCHANGED <<now, zsets, expireAt, lastAdmit, lastDeny, redisFailed>>
    /\ UNCHANGED besidesLimiter

\* The rest of processMessage (two queries, the AI call, the send) takes
\* time; when it ends the processor is free for the next job.
JobEnd ==
    /\ waiter.passed
    /\ now > waiter.wakeAt
    /\ waiter' = NoWaiter
    /\ lastCheck' = NoCheck
    /\ lastReturn' = NoReturn
    /\ UNCHANGED <<now, zsets, expireAt, lastAdmit, lastDeny, lastPass,
                   redisFailed>>
    /\ UNCHANGED besidesLimiter

\* The limiter as the queue processor drives it.
NextRL ==
    \/ \E d \in TimeSteps : Tick(d)
    \/ \E b \in LimitedBots, failAt \in FailAts : WaitForRateLimit(b, failAt)
    \/ WakeUp
    \/ JobEnd

SpecRL == Init /\ [][NextRL]_vars

\* checkRateLimit on its own, called at any time for any bot.
NextAdmit ==
    \/ \E d \in TimeSteps : Tick(d)
    \/ \E b \in LimitedBots, failAt \in FailAts : CheckRateLimit(b, failAt)

SpecAdmit == Init /\ [][NextAdmit]_vars

\* -------------------------------------------------- claims on the relay

\* The bot after b in the fixed rotation order (registration time ascending)
\* of the active bots of the group, wrapping from the last to the first.
RotationSucc(b) ==
    LET act == {c \in DOMAIN bots :
                   bots[c].isActive /\ bots[c].groupId = TheGroup}
        later == {c \in act : bots[c].createdAt > bots[b].createdAt}
        from == IF later # {} THEN later ELSE act
    IN  CHOOSE c \in from : \A d \in from : bots[c].createdAt <= bots[d].createdAt

\* C1: with an unchanging set of at least two active bots, whenever a job
\* whose AI message is the newest one of the group chains to the next
\* speaker, that speaker is the successor of the job's bot in the cyclic
\* registration order (so every active bot speaks once per round).
C1_ChainFollowsRotation ==
    (lastEnq.origin = "chain" /\ lastEnq.clean) =>
        lastEnq.bot = RotationSucc(lastEnq.by)

\* C4: the Message table never holds two rows for the same (group,
\* platform message id) pair.
C4_OneRowPerPlatformMessage ==
    \A i, k \in DOMAIN messages :
        (/\ messages[i].groupId = messages[k].groupId
         /\ messages[i].telegramMsgId = messages[k].telegramMsgId) => i = k

\* C5: for one inbound message delivered to the webhooks of several bots,
\* the handlers of two different bots never both enqueue a relay job.
C5_OneBotEnqueuesPerMessage ==
    \A e1, e2 \in ingressLog : e1.msg = e2.msg => e1.bot = e2.bot

\* C6: a handling of an event that starts after a handling of the same
\* event (same message id, same bot's webhook) has returned and enqueued
\* its job stores no further Message and enqueues no further job.
C6_RedeliveryIsIdempotent ==
    [][\A r \in BagToSet(handlers) :
           (/\ r.redo
            /\ [msg |-> r.msg, bot |-> r.bot] \in ingressLog
            /\ handlers' = handlers (-) SetToBag({r})) =>
               (messages' = messages /\ queue' = queue)]_vars

\* C7: at most one relay job of the group is queued or executing.
C7_SingleRelayJob ==
    BagCardinality(queue) + (IF active.pc # "idle" THEN 1 ELSE 0) <= 1

\* C8: whenever a delivery attempt enqueues a chained job, that attempt has
\* sent its message and the AI-generated Message row of that send (same
\* bot, group and platform message id) is stored.
C8_ChainAfterSendAndPersist ==
    lastEnq.origin = "chain" => (lastEnq.sent /\ lastEnq.persisted)

\* C8 witness: a delivery attempt has just enqueued a chained job.
C8_Witness ==
    /\ lastEnq.origin = "chain"
    /\ lastEnq.bot # lastEnq.by
    /\ lastOutcome.result = "completed"

\* C9: a delivery attempt whose platform send failed never ends as
\* completed: it ends as a retry or, after the last attempt, as failed.
C9_SendFailureFailsAttempt ==
    lastOutcome.sendNull => lastOutcome.result \in {"retry", "failed"}

\* C10: a delivery attempt that has sent and persisted its message always
\* ends as completed, whatever happens in its chain step; it is neither
\* retried nor failed.
C10_ChainFailureSwallowed ==
    lastOutcome.delivered => lastOutcome.result = "completed"

\* The active bots of the group, and the earliest registered of them.
ActiveBots == {b \in DOMAIN bots : bots[b].isActive}
FirstActive ==
    CHOOSE b \in ActiveBots :
        \A c \in ActiveBots : bots[b].createdAt <= bots[c].createdAt

\* The authors of the AI-generated rows of the Message table, oldest first.
AiAuthors ==
    LET ai == SelectSeq(messages, LAMBDA m : m.isAiGenerated)
    IN  [i \in DOMAIN ai |-> ai[i].botId]

\* Copies of job j in the waiting queue q.
waiting(j, q) == CopiesIn(j, q)

C13_SingleBotChainEnds ==
    Cardinality(ActiveBots) = 1 =>
        /\ lastEnq.origin # "chain"
        /\ lastOutcome.delivered => lastOutcome.result = "completed"
        /\ (lastOutcome.delivered /\ deliveries <= 1) => queue = EmptyBag
        /\ deliveries <= 1 => Len(AiAuthors) <= 1

\* C13 witness: the only active bot has sent and persisted its message and
\* its job has completed with nothing enqueued.
C13_Witness ==
    /\ Cardinality(ActiveBots) = 1
    /\ lastOutcome.delivered
    /\ lastOutcome.result = "completed"
    /\ lastEnq = NoEnq
    /\ queue = EmptyBag
    /\ AiAuthors = <<FirstActive>>

\* C20: a delivery of a job whose Bot row has been deleted does nothing:
\* none of its steps sends a message (takes a platform message id), stores
\* a Message, or adds a job to the queue, and none ends the attempt as a
\* retry or as failed.
C20_DeletedBotJobNoOps ==
    [][(/\ active.pc # "idle"
        /\ active.job.botId \notin DOMAIN bots
        /\ active' # active) =>
           /\ nextMsgId' = nextMsgId
           /\ messages' = messages
           /\ queue' = queue
           /\ lastOutcome'.result \notin {"retry", "failed"}]_vars

\* --------------------------------------------- claims on the ingress

\* C30: a handler enqueues at most the job of the bot whose webhook it
\* serves, and only when that bot is active as the handler selects and is
\* not the sender of the message; a handler whose bot is the sender
\* enqueues nothing.
C30_IngressEnqueuesOwnActiveBot ==
    [][\A r \in BagToSet(handlers) :
          handlers' = handlers (-) SetToBag({r}) =>
              /\ queue' = queue \/
                     queue' = queue (+) SetToBag({newJob(r.bot, r.chatId)})
              /\ queue' # queue =>
                     /\ r.bot \in DOMAIN bots
                     /\ bots[r.bot].isActive
                     /\ r.sender # r.bot
              /\ r.sender = r.bot => queue' = queue]_vars

\* A message sent by one bot was delivered to the webhook of another, whose
\* handler stored it as that bot's AI message and enqueued its own bot,
\* while some bot of the group is inactive.
C30_Witness ==
    /\ lastEnq.origin = "ingress"
    /\ Len(messages) = 1
    /\ messages[1].isAiGenerated
    /\ messages[1].botId # lastEnq.bot
    /\ \E b \in DOMAIN bots : ~bots[b].isActive

\* -------------------------------------------- claims on the updates

\* C31: a call of handleWebhook on an update that has no text, or is of a
\* chat that is no group or supergroup, or came for a token no bot is
\* registered with, or is of a group that is not registered, changes
\* neither the store nor the queue, and returns: no row is stored, no job
\* is enqueued, and no call is left running that could do either.
C31_RejectedUpdateChangesNothing ==
    [][(/\ deliveries' = deliveries + 1
        /\ \/ ~lastUpdate'.hasText
           \/ lastUpdate'.chatType \notin {"group", "supergroup"}
           \/ lastUpdate'.token \notin DOMAIN bots
           \/ lastUpdate'.chatId \notin DOMAIN groups)
       => UNCHANGED <<bots, messages, groups, queue, active, handlers,
                      ingressLog>>]_vars

\* A text message of a group chat that is not registered came for a
\* registered bot, after a message of the registered group was stored and
\* its first response enqueued.
C31_Witness ==
    /\ lastUpdate.hasText
    /\ lastUpdate.chatType \in {"group", "supergroup"}
    /\ lastUpdate.token \in DOMAIN bots
    /\ lastUpdate.chatId \notin DOMAIN groups
    /\ Len(messages) > 0
    /\ queue # EmptyBag
    /\ handlers = EmptyBag

\* -------------------------------------------- claims on the delivery

\* The jobs a step adds to the queue.
added == {j \in BagToSet(queue') : CopiesIn(j, queue') > CopiesIn(j, queue)}

\* C22: every job the chain step of a delivery enqueues has no
\* replyToMsgId, whether or not the job being delivered has one.
C22_ChainedJobHasNoReplyTarget ==
    [][lastEnq'.origin = "chain" =>
          /\ added # {}
          /\ \A j \in added : j.replyToMsgId = NoBot]_vars

\* A job with a reply target has sent, persisted and chained: the one row
\* stored is its own, and the job it enqueued waits.
C22_Witness ==
    /\ chat # {}
    /\ lastEnq.origin = "chain"
    /\ Len(messages) = 1
    /\ messages[1].botId = lastEnq.by
    /\ \E j \in BagToSet(queue) :
           j.botId = lastEnq.bot /\ j.replyToMsgId = NoBot

\* C25: the Message table is append-only: a step leaves every row there is
\* unchanged and in place, adding at most one row at the end, unless it
\* deletes a bot, and then it removes the rows of that bot, all of them,
\* and no other row.
C25_MessagesAppendOnly ==
    [][\/ messages' = messages
       \/ /\ Len(messages') = Len(messages) + 1
          /\ SubSeq(messages', 1, Len(messages)) = messages
       \/ \E b \in DOMAIN bots \ DOMAIN bots' :
              messages' = SelectSeq(messages, LAMBDA m : m.botId # b)]_vars

\* A bot whose handler stored a message and enqueued has been deleted: its
\* row of the message is gone while a row of another bot is still there.
C25_Witness ==
    \E e \in ingressLog :
        /\ e.bot \notin DOMAIN bots
        /\ ~existingMessage(messages, GroupUuid(TheGroup), e.msg)
        /\ messages # <<>>

\* -------------------------------------- claims on the administration

\* The active bots registered in group g.
activeIn(g) == {b \in DOMAIN bots : bots[b].groupId = g /\ bots[b].isActive}

\* C23: whenever no registration is in progress, the activeBots of every
\* Group row is the number of active bots registered in the group, and it
\* is never negative.
C23_ActiveBotsCount ==
    /\ \A g \in DOMAIN groups : groups[g] >= 0
    /\ pending = EmptyBag =>
           \A g \in DOMAIN groups : groups[g] = Cardinality(activeIn(g))

\* C24: a registerBot call with a field missing, with a token that is
\* registered when it is looked up, or with a token the platform rejects is
\* answered with an error status (400 or 409) and writes nothing: the Bot,
\* Group and Message tables and the webhooks stay as they are and the call
\* does not go on to its writes.
C24_RejectedRegistrationWritesNothing ==
    [][(/\ lastReg'.input # "none"
        /\ pending \sqsubseteq pending'
        /\ \/ lastReg'.input \in {"missing", "invalid"}
           \/ lastReg'.wasRegistered) =>
           /\ lastReg'.status \in {400, 409}
           /\ UNCHANGED <<bots, groups, webhooks, messages, pending>>]_vars

\* A complete request for a registered token has just been answered with
\* 409 while another registration waits for its writes.
C24_Witness ==
    /\ lastReg.input = "ok"
    /\ lastReg.wasRegistered
    /\ lastReg.status = 409
    /\ pending # EmptyBag
    /\ \E g \in DOMAIN groups : groups[g] > 0

\* C32: when registerBot calls run side by side, the writes of a call
\* create a bot only for a token that has none, and they raise the
\* activeBots of a group by exactly the number of bots they create in it:
\* by one in the group of a bot that is created, and not at all when the
\* call fails.
C32_CountIncrementedPerCreatedBot ==
    [][lastReg'.status \in {201, 500} =>
           /\ lastReg'.status = 201 => ~lastReg'.wasRegistered
           /\ \A g \in GroupTgIds :
                  LET count(gs) == IF g \in DOMAIN gs THEN gs[g] ELSE 0
                      in(bs) == {b \in DOMAIN bs : bs[b].groupId = g}
                  IN  count(groups') - count(groups) =
                          Cardinality(in(bots')) - Cardinality(in(bots))]_vars

\* The steps of processMessage in the order of its code: from each place
\* to the next, or out of the call (a return or a throw).
StepOrder ==
    {<<"idle", "load">>, <<"load", "generate">>, <<"generate", "send">>,
     <<"send", "persist">>, <<"persist", "select">>} \cup
    {<<pc, "idle">> : pc \in {"load", "generate", "send", "persist", "select"}}

\* C26: a delivery attempt goes through its steps in the order rate-limit
\* wait, context load, AI generation, send, persist, chain selection and
\* chained enqueue: a message is sent only by the send step, stored only by
\* the persist step and a chained job enqueued only by the chain step; and
\* an attempt that fails in the context load or the AI generation has sent
\* and stored nothing, enqueues no chained job and ends as a retry or as
\* failed, the only job added being its own retry.
C26_StepsInOrder ==
    [][/\ active'.pc # active.pc => <<active.pc, active'.pc>> \in StepOrder
       /\ nextMsgId' # nextMsgId => active.pc = "send"
       /\ messages' # messages => active.pc = "persist"
       /\ lastEnq'.origin = "chain" => active.pc = "select"
       /\ (active.pc \in {"load", "generate"} /\ active'.pc = "idle") =>
              /\ active.sentId = NoBot
              /\ nextMsgId' = nextMsgId
              /\ messages' = messages
              /\ lastEnq' = NoEnq
              /\ lastOutcome'.result \in {"retry", "failed"}
              /\ added \subseteq
                     {[active.job EXCEPT !.attemptsMade = @ + 1]}]_vars

\* The first attempt of the job has failed before its send: nothing is
\* sent or stored and the job waits for its second attempt.
C26_Witness ==
    /\ lastOutcome.result = "retry"
    /\ ~lastOutcome.sendNull
    /\ messages = <<>>
    /\ nextMsgId = 1
    /\ \E j \in BagToSet(queue) : j.attemptsMade = 1 /\ j.sends = 0

C28_OneSendPerJob ==
    /\ active.job.sends <= 1
    /\ \A j \in BagToSet(queue) : j.sends <= 1

\* C29: no message is sent for a bot that is inactive: whenever the send
\* step of a delivery posts a message, the bot of the job is active.
C29_InactiveBotNeverSends ==
    [][(active.pc = "send" /\ nextMsgId' # nextMsgId) =>
           /\ active.job.botId \in DOMAIN bots
           /\ bots[active.job.botId].isActive]_vars

\* --------------------------------------------- claims on the enqueue

\* C21: the delay of a job depends on its kind: a first response is delayed
\* by less than a second (under either queue service), a chained job by two
\* seconds or more, and every chained delay is longer than every
\* first-response delay.
C21_DelayWindowByKind ==
    /\ delays.first # NoTime => delays.first < Second
    /\ delays.legacy # NoTime => delays.legacy < Second
    /\ delays.chained # NoTime => delays.chained >= 2 * Second
    /\ (delays.first # NoTime /\ delays.chained # NoTime) =>
           delays.chained > delays.first

\* ------------------------------------------- claims on the rate limiter

\* C15: as long as no Redis command has failed, two returns of
\* waitForRateLimit for the same bot are never less than one window
\* (RATE_LIMIT_WINDOW ms) apart.
C15_OnePassPerWindow ==
    (~redisFailed /\ lastReturn.gap # NoTime) =>
        lastReturn.gap >= RATE_LIMIT_WINDOW

\* C16: as long as no Redis command has failed, a checkRateLimit call for a
\* bot made less than one window after the bot's last allowed call is
\* denied with 0 < resetIn <= RATE_LIMIT_WINDOW, and every other call is
\* allowed: of two calls within one window exactly one is allowed.
C16_OneAdmissionPerWindow ==
    (~redisFailed /\ lastCheck.bot \in Watched) =>
        IF /\ lastCheck.prevAdmit # NoTime
           /\ lastCheck.at - lastCheck.prevAdmit < RATE_LIMIT_WINDOW
        THEN /\ ~lastCheck.allowed
             /\ lastCheck.resetIn > 0
             /\ lastCheck.resetIn <= RATE_LIMIT_WINDOW
        ELSE lastCheck.allowed

\* C16 witness: a second call within the window of an allowed one, denied.
C16_Witness ==
    /\ ~redisFailed
    /\ lastCheck.bot \in Watched
    /\ lastCheck.prevAdmit # NoTime
    /\ lastCheck.at - lastCheck.prevAdmit < RATE_LIMIT_WINDOW
    /\ lastCheck.at > lastCheck.prevAdmit
    /\ ~lastCheck.allowed

\* C17: a checkRateLimit call for a bot made at or after the time t + resetIn
\* named by the bot's last denial (at t), with no admission of the bot
\* recorded since that denial, is allowed.
C17_AllowedAfterResetIn ==
    (/\ lastCheck.bot \in Watched
     /\ lastCheck.due # NoTime
     /\ lastCheck.at >= lastCheck.due) => lastCheck.allowed

\* C17 witness: a call made exactly at t + resetIn of the last denial, with
\* no Redis failure, and allowed.
C17_Witness ==
    /\ ~redisFailed
    /\ lastCheck.bot \in Watched
    /\ lastCheck.due # NoTime
    /\ lastCheck.at = lastCheck.due
    /\ lastCheck.allowed

\* C18: a checkRateLimit call in which a Redis command failed returns
\* allowed, and a waitForRateLimit call that made it returns in the same
\* step, without sleeping.
C18_FailOpen ==
    lastCheck.failed =>
        /\ lastCheck.allowed
        /\ lastCheck.fn = "waitForRateLimit" =>
               (lastReturn.bot = lastCheck.bot /\ ~lastReturn.slept
                    /\ waiter.passed)

\* C18 witness: the command that failed is the zrange of a call that would
\* have been denied, inside waitForRateLimit.
C18_Witness ==
    /\ lastCheck.failed
    /\ lastCheck.fn = "waitForRateLimit"
    /\ lastCheck.bot \in Watched
    /\ lastCheck.prevAdmit # NoTime
    /\ lastCheck.at - lastCheck.prevAdmit < RATE_LIMIT_WINDOW
    /\ lastReturn.bot = lastCheck.bot

\* C33: a checkRateLimit call that is denied adds no entry to the key of
\* its bot and removes from it only entries that are at least one window
\* old; and a checkRateLimit call for one bot, whatever its outcome, leaves
\* the key of every other bot, its entries and its deadline, as they were,
\* and with them the result a call for that bot would get.
C33_DeniedRecordsNothingKeysApart ==
    [][lastCheck'.fn # "none" =>
           LET b == lastCheck'.bot
               k == key(b)
               result(c, z, exp) ==
                   checkRateLimit(z[key(c)], exp[key(c)], lastCheck'.at,
                                  "none").res
           IN  /\ ~lastCheck'.allowed =>
                      /\ zsets'[k] \subseteq zsets[k]
                      /\ \A s \in zsets[k] \ zsets'[k] :
                             lastCheck'.at - s >= RATE_LIMIT_WINDOW
               /\ \A c \in LimitedBots \ {b} :
                      /\ zsets'[key(c)] = zsets[key(c)]
                      /\ expireAt'[key(c)] = expireAt[key(c)]
                      /\ result(c, zsets', expireAt') =
                             result(c, zsets, expireAt)]_vars

\* A call for one bot has just been denied, its entry of the running
\* window kept, while another bot has an entry of its own and would be
\* denied as well.
C33_Witness ==
    /\ lastCheck.fn # "none"
    /\ ~lastCheck.allowed
    /\ ~lastCheck.failed
    /\ zsets[key(lastCheck.bot)] # {}
    /\ \E c \in LimitedBots \ {lastCheck.bot} :
           /\ zsets[key(c)] # {}
           /\ ~checkRateLimit(zsets[key(c)], expireAt[key(c)], now,
                              "none").res.allowed

\* --------------------------------------------- claims on the turn selector

\* C2: whatever the store and the excluded id, selectNextBot (either
\* version) returns none or a bot that is active, is a member of the group
\* asked for and is not the excluded bot.
C2_SelectedIsEligible ==
    sel # NoSel =>
        \/ sel.res = NoBot
        \/ /\ sel.res \in DOMAIN bots
           /\ bots[sel.res].isActive
           /\ bots[sel.res].groupId = sel.group
           /\ sel.res # sel.excl

\* C2 witness: a call returned a bot although an earlier-registered active
\* bot of the same group was the excluded one, with inactive and foreign
\* bots in the table.
C2_Witness ==
    /\ sel.fn = "selectNextBot"
    /\ sel.res # NoBot
    /\ sel.excl \in DOMAIN bots
    /\ bots[sel.excl].isActive
    /\ bots[sel.excl].groupId = sel.group
    /\ sel.excl < sel.res
    /\ \E b \in DOMAIN bots : ~bots[b].isActive
    /\ \E b \in DOMAIN bots : bots[b].groupId # sel.group

\* The rotation order of the spec, stated without sequences: the position of
\* b among the bots of L is the number of bots of L registered before it.
RefL(g, excl) ==
    {b \in DOMAIN bots :
        bots[b].isActive /\ bots[b].groupId = g /\ b # excl}
RefPos(L, b) ==
    Cardinality({c \in L : bots[c].createdAt < bots[b].createdAt})
RefAiRows(g) ==
    {i \in DOMAIN messages :
        messages[i].isAiGenerated /\ messages[i].groupId = GroupUuid(g)}
RefSelect(g, excl) ==
    LET L == RefL(g, excl)
        rows == RefAiRows(g)
        newest == CHOOSE i \in rows : \A j \in rows : j <= i
        want == IF rows # {} /\ messages[newest].botId \in L
                THEN (RefPos(L, messages[newest].botId) + 1) % Cardinality(L)
                ELSE 0
    IN  IF L = {} THEN NoBot
        ELSE CHOOSE b \in L : RefPos(L, b) = want

\* C3: when its lookups succeed, selectNextBot returns the bot the spec's
\* reference function names: none for an empty L, the successor (wrapping)
\* of the newest AI message's author when that author is in L, L[0] else.
C3_SelectIsReference ==
    (sel.fn = "selectNextBot" /\ sel.dbOk) =>
        sel.res = RefSelect(sel.group, sel.excl)

\* C3 witness: the author of the newest AI message is the last of at least
\* two bots of L, and the call wrapped around to the first.
C3_Witness ==
    /\ sel.fn = "selectNextBot"
    /\ sel.dbOk
    /\ Cardinality(RefL(sel.group, sel.excl)) >= 2
    /\ RefAiRows(sel.group) # {}
    /\ LET L == RefL(sel.group, sel.excl)
           rows == RefAiRows(sel.group)
           author == messages[CHOOSE i \in rows : \A j \in rows : j <= i].botId
       IN  /\ author \in L
           /\ RefPos(L, author) = Cardinality(L) - 1
           /\ RefPos(L, sel.res) = 0
           /\ sel.res # NoBot

\* C14: a selection whose lookups succeed, made while at least one active
\* bot of the group other than the excluded one exists, returns a bot, and
\* that bot is active; so it does after the author of the newest AI message
\* has been deactivated.
C14_SkipsDeactivated ==
    (sel # NoSel /\ sel.dbOk /\ RefL(sel.group, sel.excl) # {}) =>
        /\ sel.res \in DOMAIN bots
        /\ bots[sel.res].isActive

\* C14 witness: the author of the group's newest AI message is a bot of the
\* group that has been deactivated, and the selection returned a bot.
C14_Witness ==
    /\ sel.fn = "selectNextBot"
    /\ sel.dbOk
    /\ sel.res # NoBot
    /\ RefAiRows(sel.group) # {}
    /\ LET rows == RefAiRows(sel.group)
           author == messages[CHOOSE i \in rows : \A j \in rows : j <= i].botId
       IN  /\ bots[author].groupId = sel.group
           /\ ~bots[author].isActive
           /\ author # sel.excl

\* C19: a selection in which a store lookup fails returns none, with
\* either selector.
C19_LookupFailureIsNone ==
    (sel # NoSel /\ ~sel.dbOk) => sel.res = NoBot

\* C19 witness: a lookup failed in a call that would have returned a bot.
C19_Witness ==
    /\ sel.fn = "selectNextBot"
    /\ ~sel.dbOk
    /\ sel.res = NoBot
    /\ RefL(sel.group, sel.excl) # {}

====
